---- MODULE Spec2Model ----
(***************************************************************************)
(* Model of src/app.py: the text-cleaning pipeline clean_text and the      *)
(* /generate handler generate_speech that relays a TTS provider's stream.  *)
(*                                                                         *)
(* A text is a sequence of characters; a character is a one-character      *)
(* string, except the code points that have no ASCII spelling, which are   *)
(* named by their code point ("U+1F600", "U+D83D", "U+DE00", "U+0060").    *)
(***************************************************************************)
EXTENDS Integers, Sequences, FiniteSets, TLC

\* ------------------------------------------------------------------------
\* Characters
\* ------------------------------------------------------------------------

\* A supplementary-plane code point, the range [\U00010000-\U0010ffff].
Emoji == "U+1F600"
\* A high and a low UTF-16 surrogate, as json.loads leaves them when unpaired.
HighSurrogate == "U+D83D"
LowSurrogate == "U+DE00"
\* The backtick (grave accent), which a TLA+ string cannot spell.
Backtick == "U+0060"

\* The characters the regex class \s and str.strip() treat as whitespace.
WhitespaceChars == {" ", "\t", "\n", "\r", "\f"}
\* The regex class \d.
DigitChars == {"0", "1", "2", "3", "4", "5", "6", "7", "8", "9"}

IsSpace(c) == c \in WhitespaceChars

Min(S) == CHOOSE x \in S : \A y \in S : x <= y

\* The smallest index j >= from with t[j] \in set, or 0 when there is none.
FirstIn(t, from, set) ==
    LET S == {j \in from..Len(t) : t[j] \in set}
    IN IF S = {} THEN 0 ELSE Min(S)

\* The literal lit occurs in t at index i.
StartsWithAt(t, i, lit) ==
    /\ i >= 1
    /\ i + Len(lit) - 1 <= Len(t)
    /\ \A k \in 1..Len(lit) : t[i + k - 1] = lit[k]

\* The length of the run of characters of set that starts at index i.
RECURSIVE RunLen(_, _, _)
RunLen(t, i, set) ==
    IF i > Len(t) \/ t[i] \notin set THEN 0 ELSE 1 + RunLen(t, i + 1, set)

\* ------------------------------------------------------------------------
\* removeMarkdown: five substitutions
\* ------------------------------------------------------------------------

\* re.sub(r'\[([^\]]+)\]\([^\)]+\)', r'\1', text): a match at i is
\* <<index of "]", index of ")">>, or <<0, 0>>.
LinkMatch(t, i) ==
    IF i > Len(t) \/ t[i] # "[" THEN <<0, 0>>
    ELSE LET k == FirstIn(t, i + 1, {"]"})
         IN IF k < i + 2 \/ k + 1 > Len(t) \/ t[k + 1] # "(" THEN <<0, 0>>
            ELSE LET m == FirstIn(t, k + 2, {")"})
                 IN IF m < k + 3 THEN <<0, 0>> ELSE <<k, m>>

\* SubLinks with the replacement '' in place of r'\1': the label goes too.
RECURSIVE SubLinks_DropLabel(_, _)
SubLinks_DropLabel(t, i) ==
    IF i > Len(t) THEN <<>>
    ELSE LET m == LinkMatch(t, i)
         IN IF m[2] # 0
            THEN SubLinks_DropLabel(t, m[2] + 1)
            ELSE <<t[i]>> \o SubLinks_DropLabel(t, i + 1)

RECURSIVE SubLinks(_, _)
SubLinks(t, i) ==
    IF i > Len(t) THEN <<>>
    ELSE LET m == LinkMatch(t, i)
         IN IF m[2] # 0
            THEN SubSeq(t, i + 1, m[1] - 1) \o SubLinks(t, m[2] + 1)
            ELSE <<t[i]>> \o SubLinks(t, i + 1)

\* The lazy (.*?) followed by the back-reference \1: the smallest j >= from
\* where the delimiter (n copies of d) starts, with no "\n" before it; else 0.
CloseDelim(t, from, d, n) ==
    LET S == {j \in from..Len(t) :
                /\ j + n - 1 <= Len(t)
                /\ \A k \in 0..(n - 1) : t[j + k] = d
                /\ \A k \in from..(j - 1) : t[k] # "\n"}
    IN IF S = {} THEN 0 ELSE Min(S)

\* A match at i of (d{n})(.*?)\1 for d in "*", "_": the index where the closing
\* delimiter starts, or 0.
EmphasisMatch(t, i, n) ==
    IF i + n - 1 > Len(t) \/ t[i] \notin {"*", "_"} THEN 0
    ELSE IF \E k \in 0..(n - 1) : t[i + k] # t[i] THEN 0
    ELSE CloseDelim(t, i + n, t[i], n)

\* re.sub(r'(\*\*|__)(.*?)\1', r'\2', text) for n = 2 and
\* re.sub(r'(\*|_)(.*?)\1', r'\2', text) for n = 1.
RECURSIVE SubEmphasis(_, _, _)
SubEmphasis(t, i, n) ==
    IF i > Len(t) THEN <<>>
    ELSE LET j == EmphasisMatch(t, i, n)
         IN IF j # 0
            THEN SubSeq(t, i + n, j - 1) \o SubEmphasis(t, j + n, n)
            ELSE <<t[i]>> \o SubEmphasis(t, i + 1, n)

MaxHeaderHashes == 6

\* re.sub(r'#{1,6}\s?', '', text)
RECURSIVE SubHeaders(_, _)
SubHeaders(t, i) ==
    IF i > Len(t) THEN <<>>
    ELSE IF t[i] = "#"
    THEN LET r == RunLen(t, i, {"#"})
             n == IF r > MaxHeaderHashes THEN MaxHeaderHashes ELSE r
             e == IF i + n <= Len(t) /\ IsSpace(t[i + n]) THEN i + n + 1 ELSE i + n
         IN SubHeaders(t, e)
    ELSE <<t[i]>> \o SubHeaders(t, i + 1)

MaxFenceTicks == 3

\* A match at i of the code-span pattern (one to three backticks, a lazy
\* DOTALL run, one to three backticks): the index after the match, or 0. The
\* opening run is greedy and gives backticks back when no closing backtick
\* follows it.
CodeMatchEnd(t, i) ==
    IF i > Len(t) \/ t[i] # Backtick THEN 0
    ELSE LET r == RunLen(t, i, {Backtick})
             top == IF r > MaxFenceTicks THEN MaxFenceTicks ELSE r
             ok == {n \in 1..top : FirstIn(t, i + n, {Backtick}) # 0}
         IN IF ok = {} THEN 0
            ELSE LET n == CHOOSE x \in ok : \A y \in ok : y <= x
                     j == FirstIn(t, i + n, {Backtick})
                     c == RunLen(t, j, {Backtick})
                 IN j + (IF c > MaxFenceTicks THEN MaxFenceTicks ELSE c)

RECURSIVE SubCode(_, _)
SubCode(t, i) ==
    IF i > Len(t) THEN <<>>
    ELSE LET e == CodeMatchEnd(t, i)
         IN IF e # 0 THEN SubCode(t, e) ELSE <<t[i]>> \o SubCode(t, i + 1)

RemoveMarkdown(t) ==
    LET links == SubLinks(t, 1)
        bold == SubEmphasis(links, 1, 2)
        italic == SubEmphasis(bold, 1, 1)
        headers == SubHeaders(italic, 1)
    IN SubCode(headers, 1)

\* ------------------------------------------------------------------------
\* removeEmoji
\* ------------------------------------------------------------------------

\* text.encode('utf-16', 'surrogatepass').decode('utf-16'): a high surrogate
\* directly followed by a low one becomes one supplementary code point.
RECURSIVE CombineSurrogates(_, _)
CombineSurrogates(t, i) ==
    IF i > Len(t) THEN <<>>
    ELSE IF t[i] = HighSurrogate /\ i < Len(t) /\ t[i + 1] = LowSurrogate
    THEN <<Emoji>> \o CombineSurrogates(t, i + 2)
    ELSE <<t[i]>> \o CombineSurrogates(t, i + 1)

\* The decode raises UnicodeDecodeError when a surrogate stays unpaired.
DecodeRaises(t) ==
    \E i \in 1..Len(CombineSurrogates(t, 1)) :
        CombineSurrogates(t, 1)[i] \in {HighSurrogate, LowSurrogate}

\* re.sub(r'[\U00010000-\U0010ffff]', '', text)
RemoveEmoji(t) == SelectSeq(CombineSurrogates(t, 1), LAMBDA c : c # Emoji)

\* ------------------------------------------------------------------------
\* removeUrl, removeCitations
\* ------------------------------------------------------------------------

HttpLit == <<"h", "t", "t", "p", ":", "/", "/">>
HttpsLit == <<"h", "t", "t", "p", "s", ":", "/", "/">>
WwwLit == <<"w", "w", "w", ".">>

\* A match at i of https?://\S+|www\.\S+ : the index after the match, or 0.
UrlMatchEnd(t, i) ==
    LET lit == IF StartsWithAt(t, i, HttpsLit) THEN Len(HttpsLit)
               ELSE IF StartsWithAt(t, i, HttpLit) THEN Len(HttpLit)
               ELSE IF StartsWithAt(t, i, WwwLit) THEN Len(WwwLit)
               ELSE 0
        s == FirstIn(t, i + lit, WhitespaceChars)
        e == IF s = 0 THEN Len(t) + 1 ELSE s
    IN IF lit = 0 \/ e < i + lit + 1 THEN 0 ELSE e

RECURSIVE SubUrl(_, _)
SubUrl(t, i) ==
    IF i > Len(t) THEN <<>>
    ELSE LET e == UrlMatchEnd(t, i)
         IN IF e # 0 THEN SubUrl(t, e) ELSE <<t[i]>> \o SubUrl(t, i + 1)

\* A match at i of \[\d+\] : the index after the match, or 0.
CitationMatchEnd(t, i) ==
    IF i > Len(t) \/ t[i] # "[" THEN 0
    ELSE LET d == RunLen(t, i + 1, DigitChars)
         IN IF d >= 1 /\ i + 1 + d <= Len(t) /\ t[i + 1 + d] = "]"
            THEN i + d + 2 ELSE 0

RECURSIVE SubCitations(_, _)
SubCitations(t, i) ==
    IF i > Len(t) THEN <<>>
    ELSE LET e == CitationMatchEnd(t, i)
         IN IF e # 0 THEN SubCitations(t, e)
            ELSE <<t[i]>> \o SubCitations(t, i + 1)

\* ------------------------------------------------------------------------
\* removeWhitespace and its alternative, customKeywords, strip
\* ------------------------------------------------------------------------

\* RemoveAllWhitespace with the pattern ' +' in place of '\s+'.
RemoveAllWhitespace_SpacesOnly(t) == SelectSeq(t, LAMBDA c : c # " ")

\* re.sub(r'\s+', '', text)
RemoveAllWhitespace(t) == SelectSeq(t, LAMBDA c : ~IsSpace(c))

\* CollapseSpaces as text.replace('  ', ' '): one pass over pairs of spaces.
RECURSIVE CollapseSpaces_Pairs(_, _)
CollapseSpaces_Pairs(t, i) ==
    IF i > Len(t) THEN <<>>
    ELSE IF t[i] = " " /\ i < Len(t) /\ t[i + 1] = " "
    THEN <<" ">> \o CollapseSpaces_Pairs(t, i + 2)
    ELSE <<t[i]>> \o CollapseSpaces_Pairs(t, i + 1)

\* re.sub(r' +', ' ', text)
RECURSIVE CollapseSpaces(_, _)
CollapseSpaces(t, i) ==
    IF i > Len(t) THEN <<>>
    ELSE IF t[i] = " " THEN <<" ">> \o CollapseSpaces(t, i + RunLen(t, i, {" "}))
    ELSE <<t[i]>> \o CollapseSpaces(t, i + 1)

\* Strip that takes one whitespace character off each end, not the whole run.
Strip_OneChar(t) ==
    LET a == IF Len(t) >= 1 /\ IsSpace(t[1]) THEN 2 ELSE 1
        b == IF Len(t) >= a /\ IsSpace(t[Len(t)]) THEN Len(t) - 1 ELSE Len(t)
    IN SubSeq(t, a, b)

\* str.strip()
Strip(t) ==
    LET S == {j \in 1..Len(t) : ~IsSpace(t[j])}
    IN IF S = {} THEN <<>>
       ELSE SubSeq(t, Min(S), CHOOSE x \in S : \A y \in S : y <= x)

\* str.split(','), from index i on.
RECURSIVE SplitCommas(_, _)
SplitCommas(s, i) ==
    LET c == FirstIn(s, i, {","})
    IN IF c = 0 THEN <<SubSeq(s, i, Len(s))>>
       ELSE <<SubSeq(s, i, c - 1)>> \o SplitCommas(s, c + 1)

\* [k.strip() for k in custom_keywords.split(',') if k.strip()]
Keywords(custom_keywords) ==
    LET parts == SplitCommas(custom_keywords, 1)
        stripped == [k \in 1..Len(parts) |-> Strip(parts[k])]
    IN SelectSeq(stripped, LAMBDA k : k # <<>>)

\* text.replace(kw, '')
RECURSIVE Replace(_, _, _)
Replace(t, kw, i) ==
    IF i > Len(t) THEN <<>>
    ELSE IF StartsWithAt(t, i, kw) THEN Replace(t, kw, i + Len(kw))
    ELSE <<t[i]>> \o Replace(t, kw, i + 1)

\* for kw in keywords: text = text.replace(kw, '')
RECURSIVE RemoveKeywords(_, _, _)
RemoveKeywords(t, kws, n) ==
    IF n > Len(kws) THEN t
    ELSE RemoveKeywords(Replace(t, kws[n], 1), kws, n + 1)

\* ------------------------------------------------------------------------
\* clean_text
\* ------------------------------------------------------------------------

\* The text as it stands after the removeMarkdown step (lines 26-32).
AfterMarkdown(text, options) ==
    IF options.removeMarkdown THEN RemoveMarkdown(text) ELSE text

\* clean_text raises UnicodeDecodeError (line 36) instead of returning.
clean_text_raises(text, options) ==
    /\ text # <<>>
    /\ options.removeEmoji
    /\ DecodeRaises(AfterMarkdown(text, options))

\* The branch of lines 45-50.
WhitespaceStep(t, options) ==
    IF options.removeWhitespace THEN RemoveAllWhitespace(t)
    ELSE CollapseSpaces(t, 1)

\* The value clean_text returns, when it returns.
clean_text(text, options) ==
    IF text = <<>> THEN text
    ELSE LET md == AfterMarkdown(text, options)
             em == IF options.removeEmoji THEN RemoveEmoji(md) ELSE md
             url == IF options.removeUrl THEN SubUrl(em, 1) ELSE em
             cit == IF options.removeCitations THEN SubCitations(url, 1) ELSE url
             ws == WhitespaceStep(cit, options)
             kw == IF options.customKeywords # <<>>
                   THEN RemoveKeywords(ws, Keywords(options.customKeywords), 1)
                   ELSE ws
         IN Strip(kw)

\* ------------------------------------------------------------------------
\* State
\* ------------------------------------------------------------------------

VARIABLES
    \* generate_speech, one caller request
    request,        \* the JSON body of the POST (request.json)
    pc,             \* where the handler is
    text,           \* the local variable text (lines 67, 74)
    payload,        \* the provider payload (lines 87-94), <<>> before it is built
    upstreamCalls,  \* how many requests went to the TTS provider
    provider,       \* what the provider answered: status, raw body, content type
    transportError, \* the transport failure that happened, if any
    received,       \* the chunks iter_content has yielded so far
    sent,           \* the chunks written to the caller so far
    response,       \* what the caller got: kind, status, body, content type
    \* clean_text on its own
    arg_text,       \* the first argument of clean_text
    arg_options,    \* the second argument of clean_text
    cstep,          \* "start", "once", "twice" or "raised"
    once,           \* clean_text(arg_text, arg_options)
    twice           \* clean_text(once, arg_options)

handlerVars == <<request, pc, text, payload, upstreamCalls, provider,
                 transportError, received, sent, response>>
cleanVars == <<arg_text, arg_options, cstep, once, twice>>
vars == <<request, pc, text, payload, upstreamCalls, provider, transportError,
          received, sent, response, arg_text, arg_options, cstep, once, twice>>

\* ------------------------------------------------------------------------
\* clean_text on its own: the inputs
\* ------------------------------------------------------------------------

\* The longest text is MaxParts fragments long.
MaxParts == 3

\* The fragments a text is made of: each is something a transform looks for,
\* or plain text around it.
Parts == {
    <<"a">>, <<" ">>, <<"\n">>, <<" ", "x", " ">>, <<"*">>,
    <<"[", "1", "]">>, <<"(", "a", ")">>, <<"w", "w", "w", ".">>,
    <<Emoji>>, <<HighSurrogate>>, <<"#">>
}

RECURSIVE TextsOf(_)
TextsOf(n) ==
    IF n = 0 THEN {<<>>}
    ELSE TextsOf(n - 1) \cup {t \o p : t \in TextsOf(n - 1), p \in Parts}

\* "Hello **world** [link](http://x.com) [1]"
Scenario1Input ==
    <<"H", "e", "l", "l", "o", " ", "*", "*", "w", "o", "r", "l", "d", "*", "*",
      " ", "[", "l", "i", "n", "k", "]", "(", "h", "t", "t", "p", ":", "/", "/",
      "x", ".", "c", "o", "m", ")", " ", "[", "1", "]">>

Texts == TextsOf(MaxParts) \cup {Scenario1Input}

\* The customKeywords strings tried.
KeywordStrings == {<<>>, <<" ", "x", ",", ",", "a", "a">>}

OptionRecords ==
    [removeMarkdown : BOOLEAN, removeEmoji : BOOLEAN, removeUrl : BOOLEAN,
     removeCitations : BOOLEAN, removeWhitespace : BOOLEAN,
     customKeywords : KeywordStrings]

\* cleaning_options = {} (line 71): every option.get gives a falsy value.
NoOptions ==
    [removeMarkdown |-> FALSE, removeEmoji |-> FALSE, removeUrl |-> FALSE,
     removeCitations |-> FALSE, removeWhitespace |-> FALSE,
     customKeywords |-> <<>>]

\* ------------------------------------------------------------------------
\* clean_text on its own: the steps
\* ------------------------------------------------------------------------

NoPayload ==
    [model |-> "", input |-> <<>>, voice |-> "", speed |-> "", pitch |-> "",
     stream |-> FALSE]
NoProvider == [status |-> 0, contentType |-> "absent", text |-> ""]
NoTransportError == [phase |-> "none", message |-> ""]
NoResponse == [kind |-> "none", status |-> 0, body |-> "", contentType |-> ""]

\* No caller request is in progress.
HandlerIdle ==
    /\ request = [inputKind |-> "absent", input |-> <<>>, voice |-> "absent",
                  speed |-> "absent", pitch |-> "absent",
                  cleaningOptions |-> NoOptions]
    /\ pc = "idle"
    /\ text = <<>>
    /\ payload = NoPayload
    /\ upstreamCalls = 0
    /\ provider = NoProvider
    /\ transportError = NoTransportError
    /\ received = <<>>
    /\ sent = <<>>
    /\ response = NoResponse

CleanInit ==
    /\ HandlerIdle
    /\ arg_text \in Texts
    /\ arg_options \in OptionRecords
    /\ cstep = "start"
    /\ once = <<>>
    /\ twice = <<>>

\* The call clean_text(arg_text, arg_options).
CleanOnce ==
    /\ cstep = "start"
    /\ IF clean_text_raises(arg_text, arg_options)
       THEN cstep' = "raised" /\ once' = once
       ELSE cstep' = "once" /\ once' = clean_text(arg_text, arg_options)
    /\ UNCHANGED <<arg_text, arg_options, twice>>
    /\ UNCHANGED handlerVars

\* The call clean_text(once, arg_options) on the text the first call returned.
CleanTwice ==
    /\ cstep = "once"
    /\ IF clean_text_raises(once, arg_options)
       THEN cstep' = "raised" /\ twice' = twice
       ELSE cstep' = "twice" /\ twice' = clean_text(once, arg_options)
    /\ UNCHANGED <<arg_text, arg_options, once>>
    /\ UNCHANGED handlerVars

CleanNext == CleanOnce \/ CleanTwice

SpecClean == CleanInit /\ [][CleanNext]_vars

\* ------------------------------------------------------------------------
\* generate_speech: configuration and inputs
\* ------------------------------------------------------------------------

VOICE_MAP ==
    [shimmer |-> "zh-CN-XiaoxiaoNeural", alloy |-> "zh-CN-YunyangNeural",
     fable |-> "zh-CN-YunjianNeural", onyx |-> "zh-CN-XiaoyiNeural",
     nova |-> "zh-CN-YunxiNeural", echo |-> "zh-CN-liaoning-XiaobeiNeural"]

\* VOICE_MAP.get(voice_key, voice_key)
FinalVoice(voice_key) ==
    IF voice_key \in DOMAIN VOICE_MAP THEN VOICE_MAP[voice_key] ELSE voice_key

\* The status the handler relays as a stream (line 100).
StatusOk == 200
\* The statuses of the handler's own error answers (lines 77 and 108), and of
\* the answer the framework gives when the view function raises.
StatusBadRequest == 400
StatusServerError == 500

\* Stands for the message literal of line 77.
EmptyTextMessage == "cleaned text is empty or input text missing"

\* A speed or pitch field of the body: absent, a JSON number, a JSON string
\* that is no number, or JSON null.
FloatFields == {"absent", "1.5", "fast", "null"}

\* float(data.get(key, 1.0)) raises ValueError or TypeError.
FloatRaises(field) == field \in {"fast", "null"}

\* float(data.get(key, 1.0)), when it returns.
FloatOf(field) == IF field = "absent" THEN "1.0" ELSE field

VoiceFields == {"absent", "nova", "custom-voice"}

\* data.get('voice', 'shimmer')
VoiceKey(field) == IF field = "absent" THEN "shimmer" ELSE field

\* The input strings tried, beside an absent and a null input.
HandlerTexts ==
    {<<>>, <<" ", "\n">>, <<"x">>, <<"h", "i">>, <<HighSurrogate, "h">>}

HandlerOptions ==
    {NoOptions,
     [removeMarkdown |-> TRUE, removeEmoji |-> TRUE, removeUrl |-> TRUE,
      removeCitations |-> TRUE, removeWhitespace |-> TRUE,
      customKeywords |-> <<"x">>]}

Requests ==
    [inputKind : {"string"}, input : HandlerTexts, voice : VoiceFields,
     speed : FloatFields, pitch : FloatFields, cleaningOptions : HandlerOptions]
    \cup
    [inputKind : {"absent", "null"}, input : {<<>>}, voice : VoiceFields,
     speed : FloatFields, pitch : FloatFields, cleaningOptions : HandlerOptions]

\* What the provider can answer.
ProviderStatuses == {200, 201, 404, 500}
ProviderTexts == {"quota exceeded", "<html>Bad Gateway</html>"}
ProviderContentTypes == {"absent", "audio/wav"}
\* The byte chunks iter_content can yield.
Chunks == {"AB", "CD", "EF"}
\* The longest body is MaxChunks chunks long.
MaxChunks == 3
\* str(e) of the exceptions requests raises.
ExceptionMessages == {"Connection refused", "Read timed out"}

\* ------------------------------------------------------------------------
\* generate_speech: the answers
\* ------------------------------------------------------------------------

\* The body Flask makes of the dict {"error": message}.
JsonError(message) == "{\"error\": \"" \o message \o "\"}"

\* return {"error": message}, status
ErrorResponse(message, status) ==
    [kind |-> "json", status |-> status, body |-> JsonError(message),
     contentType |-> "application/json"]

\* The answer of the framework when the view function raises: the handler
\* has no try around lines 66-74.
UnhandledResponse ==
    [kind |-> "html", status |-> StatusServerError,
     body |-> "<!doctype html><title>500 Internal Server Error</title>",
     contentType |-> "text/html"]

\* TransportErrorResponse with a fixed message in place of str(e).
TransportErrorResponse_Masked(message) ==
    ErrorResponse("Internal Server Error", StatusServerError)

\* return {"error": str(e)}, 500 (lines 107-108)
TransportErrorResponse(message) == ErrorResponse(message, StatusServerError)

\* ApiErrorMessage without the prefix.
ApiErrorMessage_Raw(raw) == raw

\* f"API Error: {response.text}" (line 101)
ApiErrorMessage(raw) == "API Error: " \o raw

\* response.headers.get('Content-Type', 'audio/mpeg') (line 105)
StreamContentType(declared) ==
    IF declared = "absent" THEN "audio/mpeg" ELSE declared

\* ------------------------------------------------------------------------
\* generate_speech: the steps
\* ------------------------------------------------------------------------

CleanIdle ==
    /\ arg_text = <<>>
    /\ arg_options = NoOptions
    /\ cstep = "idle"
    /\ once = <<>>
    /\ twice = <<>>

Init ==
    /\ request \in Requests
    /\ pc = "received"
    /\ text = <<>>
    /\ payload = NoPayload
    /\ upstreamCalls = 0
    /\ provider = NoProvider
    /\ transportError = NoTransportError
    /\ received = <<>>
    /\ sent = <<>>
    /\ response = NoResponse
    /\ CleanIdle

\* Lines 80-94: the payload of the provider request.
BuildPayload(data, cleaned) ==
    [model |-> "tts-1-" \o VoiceKey(data.voice),
     input |-> cleaned,
     voice |-> FinalVoice(VoiceKey(data.voice)),
     speed |-> FloatOf(data.speed),
     pitch |-> FloatOf(data.pitch),
     stream |-> TRUE]

\* Lines 66-94: read the body, clean the text, reject an empty one, build the
\* payload. float() and clean_text run outside the try of line 96.
HandleRequest ==
    /\ pc = "received"
    /\ IF \/ FloatRaises(request.speed)
          \/ FloatRaises(request.pitch)
          \/ clean_text_raises(request.input, request.cleaningOptions)
       THEN /\ response' = UnhandledResponse
            /\ pc' = "done"
            /\ UNCHANGED <<text, payload>>
       ELSE /\ text' = clean_text(request.input, request.cleaningOptions)
            /\ IF text' = <<>>
               THEN /\ response' = ErrorResponse(EmptyTextMessage,
                                                 StatusBadRequest)
                    /\ pc' = "done"
                    /\ UNCHANGED payload
               ELSE /\ payload' = BuildPayload(request, text')
                    /\ pc' = "ready"
                    /\ UNCHANGED response
    /\ UNCHANGED <<request, upstreamCalls, provider, transportError, received,
                   sent>>
    /\ UNCHANGED cleanVars

\* Line 98: requests.post returns the provider's status line and headers; the
\* body is not read yet (stream=True).
PostReturns ==
    /\ pc = "ready"
    /\ upstreamCalls' = upstreamCalls + 1
    /\ \E st \in ProviderStatuses, ct \in ProviderContentTypes,
          raw \in ProviderTexts :
          provider' = [status |-> st, contentType |-> ct,
                       text |-> IF st = StatusOk THEN "" ELSE raw]
    /\ pc' = "responded"
    /\ UNCHANGED <<request, text, payload, transportError, received, sent,
                   response>>
    /\ UNCHANGED cleanVars

\* Line 98 raises (connection error, timeout); lines 107-108 answer.
PostRaises ==
    /\ pc = "ready"
    /\ upstreamCalls' = upstreamCalls + 1
    /\ \E m \in ExceptionMessages :
          /\ transportError' = [phase |-> "post", message |-> m]
          /\ response' = TransportErrorResponse(m)
    /\ pc' = "done"
    /\ UNCHANGED <<request, text, payload, provider, received, sent>>
    /\ UNCHANGED cleanVars

\* Lines 100-101: the status is not 200; response.text reads the body.
ReturnApiError ==
    /\ pc = "responded"
    /\ provider.status # StatusOk
    /\ response' = ErrorResponse(ApiErrorMessage(provider.text), provider.status)
    /\ pc' = "done"
    /\ UNCHANGED <<request, text, payload, upstreamCalls, provider,
                   transportError, received, sent>>
    /\ UNCHANGED cleanVars

\* ReadTextRaises with a retry: the except clause sends the request again.
ReadTextRaises_Retry ==
    /\ pc = "responded"
    /\ provider.status # StatusOk
    /\ \E m \in ExceptionMessages :
          transportError' = [phase |-> "text", message |-> m]
    /\ pc' = "ready"
    /\ UNCHANGED <<request, text, payload, upstreamCalls, provider, received,
                   sent, response>>
    /\ UNCHANGED cleanVars

\* Line 101: reading response.text raises; lines 107-108 answer.
ReadTextRaises ==
    /\ pc = "responded"
    /\ provider.status # StatusOk
    /\ \E m \in ExceptionMessages :
          /\ transportError' = [phase |-> "text", message |-> m]
          /\ response' = TransportErrorResponse(m)
    /\ pc' = "done"
    /\ UNCHANGED <<request, text, payload, upstreamCalls, provider, received,
                   sent>>
    /\ UNCHANGED cleanVars

\* Lines 104-105: the handler returns the streaming Response; the status line
\* and the headers go to the caller.
StartStream ==
    /\ pc = "responded"
    /\ provider.status = StatusOk
    /\ response' = [kind |-> "stream", status |-> StatusOk, body |-> "",
                    contentType |-> StreamContentType(provider.contentType)]
    /\ pc' = "streaming"
    /\ UNCHANGED <<request, text, payload, upstreamCalls, provider,
                   transportError, received, sent>>
    /\ UNCHANGED cleanVars

\* The server asks the generator for the next chunk and iter_content yields it.
ReadChunk ==
    /\ pc = "streaming"
    /\ Len(sent) = Len(received)
    /\ Len(received) < MaxChunks
    /\ \E c \in Chunks : received' = Append(received, c)
    /\ UNCHANGED <<request, pc, text, payload, upstreamCalls, provider,
                   transportError, sent, response>>
    /\ UNCHANGED cleanVars

\* WriteChunk that puts the new chunk in front of the ones already written.
WriteChunk_Prepend ==
    /\ pc = "streaming"
    /\ Len(sent) < Len(received)
    /\ sent' = <<received[Len(sent) + 1]>> \o sent
    /\ UNCHANGED <<request, pc, text, payload, upstreamCalls, provider,
                   transportError, received, response>>
    /\ UNCHANGED cleanVars

\* The server writes the chunk the generator yielded to the caller.
WriteChunk ==
    /\ pc = "streaming"
    /\ Len(sent) < Len(received)
    /\ sent' = Append(sent, received[Len(sent) + 1])
    /\ UNCHANGED <<request, pc, text, payload, upstreamCalls, provider,
                   transportError, received, response>>
    /\ UNCHANGED cleanVars

\* iter_content is exhausted: the body ended.
EndOfBody ==
    /\ pc = "streaming"
    /\ Len(sent) = Len(received)
    /\ pc' = "completed"
    /\ UNCHANGED <<request, text, payload, upstreamCalls, provider,
                   transportError, received, sent, response>>
    /\ UNCHANGED cleanVars

\* iter_content raises while the body is read: the handler has returned, no
\* except clause is left, the server drops the connection.
StreamRaises ==
    /\ pc = "streaming"
    /\ Len(sent) = Len(received)
    /\ \E m \in ExceptionMessages :
          transportError' = [phase |-> "stream", message |-> m]
    /\ pc' = "failed"
    /\ UNCHANGED <<request, text, payload, upstreamCalls, provider, received,
                   sent, response>>
    /\ UNCHANGED cleanVars

Next ==
    \/ HandleRequest
    \/ PostReturns
    \/ PostRaises
    \/ ReturnApiError
    \/ ReadTextRaises
    \/ StartStream
    \/ ReadChunk
    \/ WriteChunk
    \/ EndOfBody
    \/ StreamRaises

Spec == Init /\ [][Next]_vars

\* ------------------------------------------------------------------------
\* Properties of generate_speech (specification Spec)
\* ------------------------------------------------------------------------

\* The handler has answered, or the stream it started has ended.
Answered == pc \in {"done", "streaming", "completed", "failed"}

\* The text of the request is empty after clean_text.
EmptyAfterCleaning ==
    /\ ~clean_text_raises(request.input, request.cleaningOptions)
    /\ clean_text(request.input, request.cleaningOptions) = <<>>

\* Every error message the handler can put in an error object.
ErrorMessages ==
    {EmptyTextMessage} \cup ExceptionMessages
    \cup {"API Error: " \o raw : raw \in ProviderTexts}

\* r is a JSON object of the form {"error": <message>}.
IsErrorJson(r) ==
    /\ r.contentType = "application/json"
    /\ \E m \in ErrorMessages : r.body = "{\"error\": \"" \o m \o "\"}"

\* r is a byte stream: no body of its own, only relayed chunks.
IsByteStream(r) ==
    /\ r.kind = "stream"
    /\ r.body = ""
    /\ \A i \in 1..Len(sent) : sent[i] \in Chunks

IsPrefix(a, b) == Len(a) <= Len(b) /\ \A i \in 1..Len(a) : a[i] = b[i]

\* C1: a request whose text is empty after clean_text is answered with HTTP
\* 400 and an error JSON object, and no request goes to the provider.
C1_EmptyTextRejected ==
    (pc # "received" /\ EmptyAfterCleaning) =>
        /\ response.status = 400
        /\ IsErrorJson(response)
        /\ upstreamCalls = 0

\* C2: on a 200 answer of the provider the chunks written to the caller are
\* the chunks read from the provider, in the order read, none dropped,
\* duplicated, reordered or added; without a stream nothing is written.
C2_RelayInOrder ==
    /\ IsPrefix(sent, received)
    /\ Len(received) - Len(sent) <= 1
    /\ pc \in {"completed", "failed"} => sent = received
    /\ pc \notin {"streaming", "completed", "failed"} => sent = <<>>

C2_Witness ==
    /\ pc = "completed"
    /\ provider.status = 200
    /\ sent = <<"AB", "CD", "EF">>

\* C3, as claimed: on a non-2xx status the caller gets the provider's status
\* and the provider's raw body unchanged, and any 2xx status is relayed as a
\* stream.
C3_Original ==
    /\ (pc = "done" /\ provider.status >= 300 /\ transportError.phase = "none")
         => (response.status = provider.status /\ response.body = provider.text)
    /\ (Answered /\ provider.status \in 200..299 /\ transportError.phase = "none")
         => response.kind = "stream"

\* C3, amended: on any status other than 200 the caller gets the provider's
\* status and a JSON object {"error": "API Error: <raw body>"}; only status 200
\* is relayed as a stream.
C3_ApiErrorWrapped ==
    /\ (pc = "done" /\ provider.status \notin {0, 200}
          /\ transportError.phase = "none")
         => /\ response.status = provider.status
            /\ response.contentType = "application/json"
            /\ response.body =
                 "{\"error\": \"API Error: " \o provider.text \o "\"}"
    /\ pc \in {"streaming", "completed", "failed"}
         => /\ provider.status = 200
            /\ response.kind = "stream"
            /\ response.status = 200
    /\ (Answered /\ provider.status = 200) => response.kind = "stream"

C3_Witness ==
    /\ pc = "done"
    /\ provider.status = 201
    /\ response.status = 201
    /\ response.kind = "json"

\* C4, as claimed: every transport failure, one while the response body is
\* read included, is answered with HTTP 500 and {"error": <str(e)>}.
C4_Original ==
    transportError.phase # "none" =>
        /\ response.status = 500
        /\ response.body = "{\"error\": \"" \o transportError.message \o "\"}"

\* C4, amended: a transport failure of the request itself, or of reading the
\* body of a non-200 answer, is answered with HTTP 500 and {"error": <str(e)>},
\* an answer no provider-reported error produces; a failure while a 200 body
\* is streamed is not caught: the stream already sent stays as it is and ends
\* there, with no error object.
C4_TransportError ==
    /\ transportError.phase \in {"post", "text"} =>
        /\ pc = "done"
        /\ response.status = 500
        /\ response.contentType = "application/json"
        /\ response.body = "{\"error\": \"" \o transportError.message \o "\"}"
        /\ \A st \in ProviderStatuses, raw \in ProviderTexts :
              response # ErrorResponse(ApiErrorMessage(raw), st)
    /\ transportError.phase = "stream" =>
        /\ pc = "failed"
        /\ response.kind = "stream"
        /\ response.status = 200
        /\ response.body = ""
        /\ sent = received

C4_Witness ==
    /\ transportError.phase = "text"
    /\ provider.status = 500
    /\ response.status = 500

\* C5: at most one request goes to the provider for a caller request, on
\* every path.
C5_AtMostOneUpstreamCall ==
    /\ upstreamCalls <= 1
    /\ pc \in {"received", "ready"} => upstreamCalls = 0

C5_Witness ==
    /\ pc = "done"
    /\ transportError.phase = "text"
    /\ upstreamCalls = 1

\* C6: every request ends in an error JSON object {"error": <message>} or in
\* a byte stream, and a stream carries no error payload.
C6_JsonErrorOrStream ==
    Answered => (IsErrorJson(response) \/ IsByteStream(response))

\* ------------------------------------------------------------------------
\* Properties of clean_text (specification SpecClean)
\* ------------------------------------------------------------------------

Scenario1Options ==
    [removeMarkdown |-> TRUE, removeEmoji |-> FALSE, removeUrl |-> TRUE,
     removeCitations |-> TRUE, removeWhitespace |-> FALSE,
     customKeywords |-> <<>>]

HelloWorld == <<"H", "e", "l", "l", "o", " ", "w", "o", "r", "l", "d">>
HelloWorldLink == HelloWorld \o <<" ", "l", "i", "n", "k">>

Returned == cstep \in {"once", "twice"}

HasDoubleSpace(t) == \E i \in 1..(Len(t) - 1) : t[i] = " " /\ t[i + 1] = " "

Newlines(t) == SelectSeq(t, LAMBDA c : c = "\n")

\* The options under which a second pass cannot find anything new.
SettledOptions(o) ==
    /\ ~o.removeMarkdown
    /\ ~o.removeCitations
    /\ o.customKeywords = <<>>
    /\ ~(o.removeUrl /\ o.removeWhitespace)

\* C7, as claimed: scenario 1 returns "Hello world".
C7_Original ==
    (Returned /\ arg_text = Scenario1Input /\ arg_options = Scenario1Options)
        => once = HelloWorld

\* C7, amended: scenario 1 returns "Hello world link": the link's label is
\* kept.
C7_Scenario1 ==
    (Returned /\ arg_text = Scenario1Input /\ arg_options = Scenario1Options)
        => once = HelloWorldLink

C7_Witness ==
    /\ cstep = "once"
    /\ arg_text = Scenario1Input
    /\ arg_options = Scenario1Options

\* C8, as claimed: clean_text(clean_text(text, options), options) equals
\* clean_text(text, options) for every text and every options record.
C8_Original == cstep = "twice" => twice = once

\* C8, amended: the second pass changes nothing when removeMarkdown and
\* removeCitations are unset, customKeywords is empty and removeUrl and
\* removeWhitespace are not both set.
C8_IdempotentWhenSettled ==
    (cstep = "twice" /\ SettledOptions(arg_options)) => twice = once

C8_Witness ==
    /\ cstep = "twice"
    /\ SettledOptions(arg_options)
    /\ arg_options.removeUrl
    /\ arg_options.removeEmoji
    /\ once # <<>>
    /\ Len(once) < Len(arg_text)

C10_NoWhitespace ==
    (Returned /\ arg_options.removeWhitespace)
        => \A i \in 1..Len(once) : once[i] \notin WhitespaceChars

C10_Witness ==
    /\ cstep = "once"
    /\ arg_options.removeWhitespace
    /\ arg_options.customKeywords # <<>>
    /\ \E i \in 1..Len(arg_text) : arg_text[i] = "\n"
    /\ \E i \in 1..Len(arg_text) : arg_text[i] = " "
    /\ once # <<>>

====
